---------------------------- MODULE Spec2Model ----------------------------
(***************************************************************************)
(* GithubClonerAgent, src/clone_repos.py: the reconcile-and-execute engine *)
(* (sync_repos, clone_repo, _pull_one) and the local-change publisher      *)
(* (_commit_and_pr_one).                                                   *)
(*                                                                         *)
(* Text (repository names, URLs, paths, tool output) is a sequence of      *)
(* one-character strings, so that split, basename, replace, strip and      *)
(* slicing are computed as Python computes them.                           *)
(***************************************************************************)
EXTENDS Integers, Sequences, FiniteSets, TLC

(***************************************************************************)
(* Bounds                                                                  *)
(***************************************************************************)
MaxRepos == 3

MaxCalls == 3

MaxPubRuns == 2

(***************************************************************************)
(* Text helpers                                                            *)
(***************************************************************************)
Take(s, n) == IF Len(s) <= n THEN s ELSE SubSeq(s, 1, n)

Drop(s, n) == IF Len(s) <= n THEN <<>> ELSE SubSeq(s, n + 1, Len(s))

StartsWith(s, p) == Len(p) <= Len(s) /\ SubSeq(s, 1, Len(p)) = p

Range(s) == {s[i] : i \in DOMAIN s}

Count(s, x) == Cardinality({i \in DOMAIN s : s[i] = x})

\* the indices of s that hold sep
Indices(s, sep) == {i \in DOMAIN s : s[i] = sep}

\* s.split(sep)[-1]: what follows the last sep, all of s when there is none
LastSegment(s, sep) ==
    LET idx == Indices(s, sep)
    IN  IF idx = {} THEN s ELSE Drop(s, CHOOSE i \in idx : \A j \in idx : j <= i)

\* s.split(sep)[0]: what precedes the first sep, all of s when there is none
FirstSegment(s, sep) ==
    LET idx == Indices(s, sep)
    IN  IF idx = {} THEN s ELSE Take(s, (CHOOSE i \in idx : \A j \in idx : i <= j) - 1)

\* s.replace(pat, ""): every non-overlapping occurrence, left to right
RECURSIVE RemoveAll(_, _)
RemoveAll(s, pat) ==
    IF s = <<>> THEN <<>>
    ELSE IF StartsWith(s, pat) THEN RemoveAll(Drop(s, Len(pat)), pat)
    ELSE <<Head(s)>> \o RemoveAll(Tail(s), pat)

Whitespace == {" ", "\n", "\t"}

RECURSIVE LStrip(_)
LStrip(s) == IF s # <<>> /\ Head(s) \in Whitespace THEN LStrip(Tail(s)) ELSE s

RECURSIVE RStrip(_)
RStrip(s) ==
    IF s # <<>> /\ s[Len(s)] \in Whitespace THEN RStrip(SubSeq(s, 1, Len(s) - 1)) ELSE s

\* s.strip()
Strip(s) == RStrip(LStrip(s))

\* a or b or c on strings: the first non-empty one
Or3(a, b, c) == IF a # <<>> THEN a ELSE IF b # <<>> THEN b ELSE c

Slash == "/"

DotGit == <<".", "g", "i", "t">>

Basename(p) == LastSegment(p, Slash)

PathJoin(dir, name) == dir \o <<Slash>> \o name

(***************************************************************************)
(* The remote repositories (gh repo list) and the destination directory    *)
(***************************************************************************)
RepoA  == <<"o", "/", "a">>
RepoB  == <<"o", "/", "b">>
RepoIO == <<"o", "/", "x", ".", "g", "i", "t", "h", "u", "b", ".", "i", "o">>
RepoPA == <<"p", "/", "a">>

Universe == <<RepoA, RepoB, RepoIO, RepoPA>>

Dest == <<"d">>

\* the url and sshUrl fields gh reports for nameWithOwner
HttpsUrl(full) == <<"h", ":", "/", "/", "g", "h", "/">> \o full

SshUrl(full) == <<"g", "@", "g", "h", ":">> \o full \o DotGit

RepoDict(full) == [name |-> full, url |-> HttpsUrl(full), sshUrl |-> SshUrl(full)]

UrlKeys == {"url", "sshUrl"}

Jobs == {1, 2, 8}

\* r["name"].split("/")[-1]
ShortName(r) == LastSegment(r.name, Slash)

\* os.path.join(dest, name) of sync_repos and commit_and_push_changes
RepoPath(r) == PathJoin(Dest, ShortName(r))

\* clone_repo's target
CloneTarget(url, dest) == PathJoin(dest, RemoveAll(Basename(url), DotGit))

RECURSIVE SeqOfIdx(_)
SeqOfIdx(S) ==
    IF S = {} THEN <<>>
    ELSE LET m == CHOOSE i \in S : \A j \in S : i <= j
         IN  <<RepoDict(Universe[m])>> \o SeqOfIdx(S \ {m})

\* the lists gh may return: the universe's repositories, in its order
RemoteLists ==
    {SeqOfIdx(S) : S \in {T \in SUBSET (DOMAIN Universe) :
                              T # {} /\ Cardinality(T) <= MaxRepos}}

AllRepos == {RepoDict(Universe[i]) : i \in DOMAIN Universe}

Paths ==
    {RepoPath(r) : r \in AllRepos}
        \cup {CloneTarget(r[k], Dest) : r \in AllRepos, k \in UrlKeys}

\* the characters of the paths, in code point order
CharOrder == <<".", "/", "a", "b", "d", "g", "h", "i", "o", "t", "u", "x">>

CharCode(c) == CHOOSE i \in DOMAIN CharOrder : CharOrder[i] = c

\* s < t on strings
RECURSIVE StrLess(_, _)
StrLess(s, t) ==
    IF t = <<>> THEN FALSE
    ELSE IF s = <<>> THEN TRUE
    ELSE IF Head(s) = Head(t) THEN StrLess(Tail(s), Tail(t))
    ELSE CharCode(Head(s)) < CharCode(Head(t))

\* sorted(S) for a set of strings
RECURSIVE Sorted(_)
Sorted(S) ==
    IF S = {} THEN <<>>
    ELSE LET m == CHOOSE x \in S : \A y \in S \ {x} : StrLess(x, y)
         IN  <<m>> \o Sorted(S \ {m})

\* a path is absent, a directory without .git, or a directory with .git
DirStates == {"absent", "dir", "git"}

IsDir(f, p) == f[p] # "absent"

IsGitDir(f, p) == f[p] = "git"


(***************************************************************************)
(* External tools: git clone, git pull                                     *)
(***************************************************************************)
\* exit statuses git clone may be given for a repository
CloneExits == {0, 128}

\* git clone <url> <target>: refuses an existing non-empty target, creates
\* the working copy when it exits 0
GitClone(f, target, rc) ==
    IF IsDir(f, target) THEN [rc |-> 128, fs |-> f]
    ELSE IF rc = 0 THEN [rc |-> 0, fs |-> [f EXCEPT ![target] = "git"]]
    ELSE [rc |-> rc, fs |-> f]

LongLine == [i \in 1..205 |-> "e"]

PullOk == [rc |-> 0, out |-> <<"o", "k", "\n">>, err |-> <<>>, raised |-> FALSE]

PullConflict ==
    [rc |-> 1, out |-> <<>>,
     err |-> <<"c", "o", "n", "f", "l", "i", "c", "t", "\n">>, raised |-> FALSE]

PullLong ==
    [rc |-> 128, out |-> <<"o", "u", "t">>,
     err |-> LongLine \o <<"\n", "h", "i", "n", "t", "\n">>, raised |-> FALSE]

PullStdout ==
    [rc |-> 1, out |-> <<"C", "O", "N", "F", "\n", "x", "\n">>, err |-> <<>>,
     raised |-> FALSE]

\* subprocess.run itself raises (str(e) is in err)
PullRaise ==
    [rc |-> 1, out |-> <<>>, err |-> <<"n", "o", " ", "g", "i", "t">>, raised |-> TRUE]

\* what git pull may do in a working copy, by name
PullKinds == {"ok", "conflict", "long", "stdout", "raise"}

PullResult(kind) ==
    CASE kind = "ok" -> PullOk
      [] kind = "conflict" -> PullConflict
      [] kind = "long" -> PullLong
      [] kind = "stdout" -> PullStdout
      [] kind = "raise" -> PullRaise

ErrMax == 200

PullFailedMsg == <<"p", "u", "l", "l", " ", "f", "a", "i", "l", "e", "d">>

(***************************************************************************)
(* The units of work                                                       *)
(***************************************************************************)
\* _pull_one without the [:200] slice
PullOneNoCut(path, res) ==
    LET name == Basename(path)
    IN  IF res.raised THEN [name |-> name, ok |-> FALSE, err |-> res.err]
        ELSE IF res.rc = 0 THEN [name |-> name, ok |-> TRUE, err |-> <<>>]
        ELSE [name |-> name, ok |-> FALSE,
              err |-> FirstSegment(Strip(Or3(res.err, res.out, PullFailedMsg)), "\n")]

\* _pull_one: (basename, success, error_message)
PullOne(path, res) ==
    LET name == Basename(path)
    IN  IF res.raised THEN [name |-> name, ok |-> FALSE, err |-> Take(res.err, ErrMax)]
        ELSE IF res.rc = 0 THEN [name |-> name, ok |-> TRUE, err |-> <<>>]
        ELSE [name |-> name, ok |-> FALSE,
              err |-> Take(FirstSegment(Strip(Or3(res.err, res.out, PullFailedMsg)),
                                        "\n"), ErrMax)]

\* CloneCheck without the test of the target directory
CloneCheckNoExists(url, dest, dry, f) == IF dry THEN "dry" ELSE "go"

\* clone_repo up to the call of git: "dry", "skip" (target exists) or "go"
CloneCheck(url, dest, dry, f) ==
    IF dry THEN "dry"
    ELSE IF IsDir(f, CloneTarget(url, dest)) THEN "skip"
    ELSE "go"

\* clone_repo from the call of git on: True when git exits 0
CloneRun(url, dest, f, rc) ==
    LET g == GitClone(f, CloneTarget(url, dest), rc)
    IN  IF g.rc = 0 THEN [ok |-> TRUE, how |-> "cloned", fs |-> g.fs]
        ELSE [ok |-> FALSE, how |-> "failed", fs |-> g.fs]

\* clone_repo as one call
CloneRepo(url, dest, dry, f, rc) ==
    LET c == CloneCheck(url, dest, dry, f)
    IN  IF c = "go" THEN CloneRun(url, dest, f, rc)
        ELSE [ok |-> TRUE, how |-> c, fs |-> f]

(***************************************************************************)
(* The Reconciler: the classification loop of sync_repos                   *)
(***************************************************************************)
RECURSIVE ToPull(_, _)
ToPull(rs, f) ==
    IF rs = <<>> THEN <<>>
    ELSE (IF IsGitDir(f, RepoPath(Head(rs))) THEN <<RepoPath(Head(rs))>> ELSE <<>>)
             \o ToPull(Tail(rs), f)

\* ToClone with the test of .git left out
RECURSIVE ToCloneNoDir(_, _)
ToCloneNoDir(rs, f) ==
    IF rs = <<>> THEN <<>>
    ELSE (IF IsDir(f, RepoPath(Head(rs))) THEN <<>> ELSE <<Head(rs)>>)
             \o ToCloneNoDir(Tail(rs), f)

RECURSIVE ToClone(_, _)
ToClone(rs, f) ==
    IF rs = <<>> THEN <<>>
    ELSE (IF IsGitDir(f, RepoPath(Head(rs))) THEN <<>> ELSE <<Head(rs)>>)
             \o ToClone(Tail(rs), f)

(***************************************************************************)
(* --pull-only: find_repo_dirs and the filter of pull_all_repos            *)
(***************************************************************************)
FindRepoDirs(f) == Sorted({p \in Paths : IsGitDir(f, p)})

\* main, line 1114
OnlyNames(rs) == {ShortName(rs[i]) : i \in DOMAIN rs}

\* lines 261-263
PullAllList(f, only) == SelectSeq(FindRepoDirs(f), LAMBDA p : Basename(p) \in only)

(***************************************************************************)
(* State of one run of sync_repos (--sync) or pull_all_repos (--pull-only) *)
(***************************************************************************)
VARIABLES
    mode,           \* "sync" or "pull"
    repos,          \* the remote list, as get_repo_list returned it
    url_key,        \* "url" or "sshUrl"
    jobs,           \* max(1, args.jobs)
    fs0,            \* the destination directory when the run starts
    fs,             \* the destination directory now
    gitClone,       \* the exit status git clone has for each repository
    gitPull,        \* the result git pull has in each working copy
    pc,             \* where sync_repos is
    to_clone, to_pull,
    cunit,          \* the clone units, one per entry of to_clone
    punit,          \* the pull units, one per entry of to_pull
    cloned_names, pulled_names, pull_failed,
    dry_run,        \* args.dry_run
    calls           \* the calls of clone_repo made so far: target and branch taken

(***************************************************************************)
(* State of _commit_and_pr_one on one working copy                         *)
(***************************************************************************)
VARIABLES
    repo_path,      \* the working copy
    wc,             \* its git state: tree, feature branch, HEAD, unpushed commits,
                    \* review request on the host
    wc0,            \* wc when the current call started
    ppc,            \* where the call is
    cmds,           \* the commands the current call has issued, with their results
    outcome,        \* the tuple the call returned
    runs,           \* calls made on this working copy so far
    day,            \* the UTC date of the run, which names its branch
    prev,           \* what the previous call on this working copy did
    created,        \* the checkout -b commands issued on this working copy
    committed, prs, errors      \* the lists of commit_and_push_changes

(***************************************************************************)
(* State of main around sync_repos, pull_all_repos and the clone loop      *)
(***************************************************************************)
VARIABLES
    listing,        \* what gh repo list does in this run
    names,          \* the names commit_and_push_changes has still to visit
    ok,             \* the counter of the default clone loop
    summary,        \* what maybe_notify_after_run was handed
    exit_code,      \* what main returned
    sync_run,       \* the number of the --sync run on this directory
    cloned_before   \* the repositories the previous --sync run cloned with git

pubvars == <<repo_path, wc, wc0, ppc, cmds, outcome, runs, day, prev, created,
             committed, prs, errors>>

mainvars == <<listing, names, ok, summary, exit_code, sync_run, cloned_before>>

vars == <<mode, repos, url_key, jobs, fs0, fs, gitClone, gitPull, pc, to_clone, to_pull,
          cunit, punit, cloned_names, pulled_names, pull_failed, dry_run, calls,
          pubvars, mainvars>>

inputs == <<mode, repos, url_key, jobs, fs0, gitClone, gitPull, dry_run>>

others == <<calls, pubvars, mainvars>>

None == <<>>

Some(x) == <<x>>

NoOutcome == [name |-> <<>>, committed |-> FALSE, pr_url |-> None, error |-> None]

NoWc == [tree |-> "clean", branch |-> FALSE, head |-> "main", ahead |-> 0, pr |-> FALSE]

NoPrev == [committed |-> FALSE, pushed |-> FALSE, edited |-> FALSE, day |-> 0]

\* no publisher call is in progress
PubOff ==
    /\ repo_path = <<>>
    /\ wc = NoWc
    /\ wc0 = NoWc
    /\ ppc = "off"
    /\ cmds = <<>>
    /\ outcome = NoOutcome
    /\ runs = 0
    /\ day = 1
    /\ prev = NoPrev
    /\ created = <<>>
    /\ committed = <<>>
    /\ prs = <<>>
    /\ errors = <<>>

\* main is not part of the run
MainOff ==
    /\ listing = "ok"
    /\ names = <<>>
    /\ ok = 0
    /\ summary = None
    /\ exit_code = None
    /\ sync_run = 1
    /\ cloned_before = {}

NoUnit == [st |-> "queued", ok |-> FALSE, how |-> "none"]

Running(us) == {i \in DOMAIN us : us[i].st = "running"}

Queued(us) == {i \in DOMAIN us : us[i].st = "queued"}

\* the pool's work queue is first in, first out
NextQueued(us) == CHOOSE i \in Queued(us) : \A j \in Queued(us) : i <= j

AllCollected(us) == \A i \in DOMAIN us : us[i].st = "collected"

\* the directories of the listed repositories are in any state; in a
\* --pull-only run other working copies may lie beside them. Tool results
\* the run cannot ask for are left at exit 0.
Init ==
    /\ mode \in {"sync", "pull"}
    /\ repos \in RemoteLists
    /\ url_key \in IF mode = "sync" THEN UrlKeys ELSE {"url"}
    /\ jobs \in Jobs
    /\ fs0 \in {f \in [Paths -> DirStates] :
                  \A p \in Paths :
                      p \notin {RepoPath(repos[i]) : i \in DOMAIN repos}
                          => \/ f[p] = "absent"
                             \/ mode = "pull" /\ f[p] = "git"}
    /\ fs = fs0
    /\ gitClone \in {g \in [Range(repos) -> CloneExits] :
                        \A r \in Range(repos) :
                            (mode = "pull" \/ IsGitDir(fs0, RepoPath(r))) => g[r] = 0}
    /\ gitPull \in {g \in [Paths -> PullKinds] :
                        \A p \in Paths :
                            (~IsGitDir(fs0, p) \/ Basename(p) \notin OnlyNames(repos))
                                => g[p] = "ok"}
    /\ pc = "classify"
    /\ to_clone = <<>>
    /\ to_pull = <<>>
    /\ cunit = <<>>
    /\ punit = <<>>
    /\ cloned_names = <<>>
    /\ pulled_names = <<>>
    /\ pull_failed = <<>>
    /\ dry_run = FALSE
    /\ calls = <<>>
    /\ PubOff
    /\ MainOff

\* lines 813-821
Classify ==
    /\ pc = "classify"
    /\ mode = "sync"
    /\ to_clone' = ToClone(repos, fs)
    /\ to_pull' = ToPull(repos, fs)
    /\ cunit' = [i \in 1..Len(to_clone') |-> NoUnit]
    /\ pc' = "clone"
    /\ UNCHANGED <<inputs, others, fs, punit, cloned_names, pulled_names, pull_failed>>

\* lines 261-268: pull_all_repos lists the working copies to pull, and
\* returns at once when there is none
ScanPull ==
    /\ pc = "classify"
    /\ mode = "pull"
    /\ to_pull' = PullAllList(fs, OnlyNames(repos))
    /\ punit' = [i \in 1..Len(to_pull') |-> NoUnit]
    /\ pc' = IF to_pull' = <<>> THEN "done" ELSE "pull"
    /\ UNCHANGED <<inputs, others, fs, to_clone, cunit, cloned_names, pulled_names,
                   pull_failed>>

\* lines 823-826: the sequential loop, one iteration
CloneSeq ==
    /\ pc = "clone"
    /\ jobs <= 1
    /\ Queued(cunit) # {}
    /\ LET i == NextQueued(cunit)
           r == to_clone[i]
           c == CloneRepo(r[url_key], Dest, FALSE, fs, gitClone[r])
       IN  /\ fs' = c.fs
           /\ cunit' = [cunit EXCEPT ![i] = [NoUnit EXCEPT !.st = "collected",
                                                           !.ok = c.ok, !.how = c.how]]
           /\ cloned_names' = IF c.ok THEN Append(cloned_names, ShortName(r))
                              ELSE cloned_names
    /\ UNCHANGED <<inputs, others, pc, to_clone, to_pull, punit, pulled_names, pull_failed>>

\* lines 828-835: a worker takes the next submitted unit and runs clone_repo
\* up to the call of git
CloneStart ==
    /\ pc = "clone"
    /\ jobs > 1
    /\ Queued(cunit) # {}
    /\ Cardinality(Running(cunit)) < jobs
    /\ LET i == NextQueued(cunit)
           r == to_clone[i]
           c == CloneCheck(r[url_key], Dest, FALSE, fs)
       IN  cunit' = [cunit EXCEPT ![i] =
                        IF c = "go" THEN [NoUnit EXCEPT !.st = "running"]
                        ELSE [NoUnit EXCEPT !.st = "done", !.ok = TRUE, !.how = c]]
    /\ UNCHANGED <<inputs, others, fs, pc, to_clone, to_pull, punit, cloned_names,
                   pulled_names, pull_failed>>

\* lines 728-738 in a worker: git clone returns
CloneGit(i) ==
    /\ pc = "clone"
    /\ cunit[i].st = "running"
    /\ LET r == to_clone[i]
           c == CloneRun(r[url_key], Dest, fs, gitClone[r])
       IN  /\ fs' = c.fs
           /\ cunit' = [cunit EXCEPT ![i] = [NoUnit EXCEPT !.st = "done",
                                                           !.ok = c.ok, !.how = c.how]]
    /\ UNCHANGED <<inputs, others, pc, to_clone, to_pull, punit, cloned_names,
                   pulled_names, pull_failed>>

\* lines 836-839: as_completed hands a finished future to the collecting thread
CloneCollect(i) ==
    /\ pc = "clone"
    /\ cunit[i].st = "done"
    /\ cunit' = [cunit EXCEPT ![i].st = "collected"]
    /\ cloned_names' = IF cunit[i].ok THEN Append(cloned_names, ShortName(to_clone[i]))
                       ELSE cloned_names
    /\ UNCHANGED <<inputs, others, fs, pc, to_clone, to_pull, punit, pulled_names, pull_failed>>

\* BeginPull not waiting for the clone units
BeginPullEarly ==
    /\ pc = "clone"
    /\ pc' = "pull"
    /\ punit' = [i \in 1..Len(to_pull) |-> NoUnit]
    /\ UNCHANGED <<inputs, others, fs, to_clone, to_pull, cunit, cloned_names, pulled_names,
                   pull_failed>>

\* lines 840-842
BeginPull ==
    /\ pc = "clone"
    /\ AllCollected(cunit)
    /\ pc' = "pull"
    /\ punit' = [i \in 1..Len(to_pull) |-> NoUnit]
    /\ UNCHANGED <<inputs, others, fs, to_clone, to_pull, cunit, cloned_names, pulled_names,
                   pull_failed>>

\* Record with the failure branch also taken on success
RecordBoth(u) ==
    /\ pulled_names' = IF u.ok THEN Append(pulled_names, u.name) ELSE pulled_names
    /\ pull_failed' = Append(pull_failed, <<u.name, u.err>>)

\* lines 846-851 and 857-862 (272-277 and 283-288 of pull_all_repos): one
\* outcome is appended to one of the two lists
Record(u) ==
    /\ pulled_names' = IF u.ok THEN Append(pulled_names, u.name) ELSE pulled_names
    /\ pull_failed' = IF u.ok THEN pull_failed
                      ELSE Append(pull_failed, <<u.name, u.err>>)

\* lines 843-851 (269-277): the sequential loop, one iteration
PullSeq ==
    /\ pc = "pull"
    /\ jobs <= 1
    /\ Queued(punit) # {}
    /\ LET i == NextQueued(punit)
           u == PullOne(to_pull[i], PullResult(gitPull[to_pull[i]]))
       IN  /\ punit' = [punit EXCEPT ![i] = [NoUnit EXCEPT !.st = "collected",
                                                           !.ok = u.ok]]
           /\ Record(u)
    /\ UNCHANGED <<inputs, others, fs, pc, to_clone, to_pull, cunit, cloned_names>>

\* lines 853-854 (279-280): a worker takes the next submitted unit and calls git pull
PullStart ==
    /\ pc = "pull"
    /\ jobs > 1
    /\ Queued(punit) # {}
    /\ Cardinality(Running(punit)) < jobs
    /\ punit' = [punit EXCEPT ![NextQueued(punit)].st = "running"]
    /\ UNCHANGED <<inputs, others, fs, pc, to_clone, to_pull, cunit, cloned_names,
                   pulled_names, pull_failed>>

\* _pull_one returns in a worker
PullFinish(i) ==
    /\ pc = "pull"
    /\ punit[i].st = "running"
    /\ LET u == PullOne(to_pull[i], PullResult(gitPull[to_pull[i]]))
       IN  punit' = [punit EXCEPT ![i] = [NoUnit EXCEPT !.st = "done", !.ok = u.ok]]
    /\ UNCHANGED <<inputs, others, fs, pc, to_clone, to_pull, cunit, cloned_names,
                   pulled_names, pull_failed>>

\* lines 855-862 (281-288): as_completed hands a finished future to the collecting thread;
\* fut.result() is what _pull_one returned for that path
PullCollect(i) ==
    /\ pc = "pull"
    /\ punit[i].st = "done"
    /\ punit' = [punit EXCEPT ![i].st = "collected"]
    /\ Record(PullOne(to_pull[i], PullResult(gitPull[to_pull[i]])))
    /\ UNCHANGED <<inputs, others, fs, pc, to_clone, to_pull, cunit, cloned_names>>

\* lines 863-864 (289)
Return ==
    /\ pc = "pull"
    /\ AllCollected(punit)
    /\ pc' = "done"
    /\ UNCHANGED <<inputs, others, fs, to_clone, to_pull, cunit, punit, cloned_names,
                   pulled_names, pull_failed>>

Next ==
    \/ Classify
    \/ ScanPull
    \/ CloneSeq
    \/ CloneStart
    \/ \E i \in DOMAIN cunit : CloneGit(i)
    \/ \E i \in DOMAIN cunit : CloneCollect(i)
    \/ BeginPull
    \/ PullSeq
    \/ PullStart
    \/ \E i \in DOMAIN punit : PullFinish(i)
    \/ \E i \in DOMAIN punit : PullCollect(i)
    \/ Return

Spec == Init /\ [][Next]_vars

(***************************************************************************)
(* clone_repo called repeatedly on one destination directory (the default  *)
(* clone mode's calls, over one run or several)                            *)
(***************************************************************************)
InitClone ==
    /\ mode = "clone"
    /\ repos \in RemoteLists
    /\ url_key \in UrlKeys
    /\ dry_run \in BOOLEAN
    /\ fs0 \in {f \in [Paths -> DirStates] :
                  \A p \in Paths :
                      p \notin {RepoPath(repos[i]) : i \in DOMAIN repos}
                          => f[p] = "absent"}
    /\ fs = fs0
    /\ calls = <<>>
    /\ PubOff
    /\ MainOff
    /\ jobs = 1
    /\ gitClone = [r \in Range(repos) |-> 0]
    /\ gitPull = [p \in Paths |-> "ok"]
    /\ pc = "calls"
    /\ to_clone = <<>>
    /\ to_pull = <<>>
    /\ cunit = <<>>
    /\ punit = <<>>
    /\ cloned_names = <<>>
    /\ pulled_names = <<>>
    /\ pull_failed = <<>>

\* lines 1205-1207: clone_repo is called for a repository of the list; git
\* clone, when it is run, exits with rc
CallClone ==
    /\ pc = "calls"
    /\ Len(calls) < MaxCalls
    /\ \E i \in DOMAIN repos, rc \in CloneExits :
           LET url == repos[i][url_key]
               c == CloneRepo(url, Dest, dry_run, fs, rc)
           IN  /\ fs' = c.fs
               /\ calls' = Append(calls, [target |-> CloneTarget(url, Dest),
                                          how |-> c.how, ok |-> c.ok])
    /\ UNCHANGED <<inputs, pubvars, mainvars, pc, to_clone, to_pull, cunit, punit,
                   cloned_names, pulled_names, pull_failed>>

NextClone == CallClone

SpecClone == InitClone /\ [][NextClone]_vars

(***************************************************************************)
(* The Local-Change Publisher: _commit_and_pr_one                          *)
(***************************************************************************)
StatusText == <<" ", "M", " ", "f", "\n">>

ErrText == <<"f", "a", "t", "a", "l", "\n">>

OutText == <<"o", "u", "t", "\n">>

\* str(e) of a CalledProcessError and of another exception
ExitText == <<"e", "x", "i", "t", " ", "1">>

RaiseText == <<"n", "o", " ", "g", "i", "t">>

PrUrl == <<"h", ":", "/", "/", "g", "h", "/", "p", "r", "/", "1">>

ExistsText == <<"A", "l", "r", "e", "a", "d", "y", " ", "e", "x", "i", "s", "t", "s", "\n">>

AlreadyExists == <<"a", "l", "r", "e", "a", "d", "y", " ", "e", "x", "i", "s", "t", "s">>

PrFailedMsg == <<"P", "R", " ", "c", "r", "e", "a", "t", "e", " ", "f", "a", "i", "l", "e", "d">>

\* str.lower on the letters the tool output uses
LowerChar(c) == IF c = "A" THEN "a" ELSE IF c = "P" THEN "p" ELSE IF c = "R" THEN "r" ELSE c

Lower(s) == [i \in DOMAIN s |-> LowerChar(s[i])]

\* pat in s
Contains(s, pat) ==
    \E i \in 0..(Len(s) - Len(pat)) : SubSeq(s, i + 1, i + Len(pat)) = pat

\* what a command run with check=True may do: exit 0, exit non-zero with
\* stderr, with stdout only, with no output, or fail to start
RunKinds == {"ok", "stderr", "stdout", "bare", "raise"}

\* what a command run with check=False may do
QueryKinds == {"ok", "fail", "raise"}

\* what gh pr create may do
PrKinds == {"created", "exists", "error", "bare", "raise"}

\* lines 918-921: the error of the tuple returned from the except clauses
FailMessage(kind) ==
    IF kind = "raise" THEN Take(RaiseText, ErrMax)
    ELSE Take(Or3(IF kind = "stderr" THEN ErrText ELSE <<>>,
                  IF kind = "stdout" THEN OutText ELSE <<>>,
                  ExitText), ErrMax)

Failed(kind) ==
    [name |-> Basename(repo_path), committed |-> FALSE, pr_url |-> None,
     error |-> Some(FailMessage(kind))]

NoChanges ==
    [name |-> Basename(repo_path), committed |-> FALSE, pr_url |-> None, error |-> None]

\* StatusOut listing a change whatever the tree holds
StatusOutAlways(kind, w) == IF kind = "ok" THEN StatusText ELSE <<>>

\* git status --porcelain: the stdout of a run that exits 0 lists the changes
StatusOut(kind, w) == IF kind = "ok" /\ w.tree # "clean" THEN StatusText ELSE <<>>

\* not r.stdout.strip(), with the test inverted
StatusEmptyInverted(out) == Strip(out) # <<>>

\* lines 877 and 893: not r.stdout.strip()
StatusEmpty(out) == Strip(out) = <<>>

\* git add -A: changes are staged; differences that staging normalises away
\* (line endings, file modes) vanish
Staged(tree) ==
    CASE tree = "dirty" -> "staged"
      [] tree = "phantom" -> "clean"
      [] OTHER -> tree

\* a command of the call: what was run, for which step, whether it succeeded,
\* whether a status listed changes, what the hosting tool answered
Entry(cmd, step, good) ==
    [cmd |-> cmd, step |-> step, ok |-> good, changes |-> FALSE, res |-> "none"]

\* the call returns t
PubReturn(t) ==
    /\ outcome' = t
    /\ ppc' = "done"

InitPub ==
    /\ repo_path \in {RepoPath(r) : r \in AllRepos}
    /\ wc \in {w \in [tree : {"clean", "dirty", "phantom", "staged"}, branch : BOOLEAN,
                      head : {"main", "feature"}, ahead : {0, 1}, pr : BOOLEAN] :
                  /\ w.head = "feature" => w.branch
                  /\ (w.ahead > 0 \/ w.pr) => w.branch}
    /\ wc0 = wc
    /\ ppc = "status"
    /\ cmds = <<>>
    /\ outcome = NoOutcome
    /\ runs = 1
    /\ day = 1
    /\ prev = NoPrev
    /\ created = <<>>
    /\ committed = <<>>
    /\ prs = <<>>
    /\ errors = <<>>
    /\ MainOff
    /\ mode = "sync"
    /\ repos = <<>>
    /\ url_key = "url"
    /\ dry_run = FALSE
    /\ jobs = 1
    /\ fs0 = [p \in Paths |-> IF p = repo_path THEN "git" ELSE "absent"]
    /\ fs = fs0
    /\ gitClone = <<>>
    /\ gitPull = [p \in Paths |-> "ok"]
    /\ pc = "publish"
    /\ to_clone = <<>>
    /\ to_pull = <<>>
    /\ cunit = <<>>
    /\ punit = <<>>
    /\ cloned_names = <<>>
    /\ pulled_names = <<>>
    /\ pull_failed = <<>>
    /\ calls = <<>>

syncvars == <<inputs, fs, pc, to_clone, to_pull, cunit, punit, cloned_names,
              pulled_names, pull_failed, calls, mainvars>>

\* what no step of a call changes
pubrun == <<repo_path, wc0, runs, day, prev, committed, prs, errors>>

\* lines 876-878
PubStatus ==
    /\ ppc = "status"
    /\ \E k \in QueryKinds :
           LET out == StatusOut(k, wc)
           IN  /\ cmds' = Append(cmds, [Entry("status", 0, k = "ok") EXCEPT
                                            !.changes = out # <<>>, !.res = k])
               /\ IF k = "raise" THEN PubReturn(Failed(k))
                  ELSE IF StatusEmpty(out) THEN PubReturn(NoChanges)
                  ELSE ppc' = "verify" /\ UNCHANGED outcome
    /\ UNCHANGED <<syncvars, pubrun, wc, created>>

\* PubVerify taking the branch for missing whatever rev-parse answers
PubVerifyAlwaysNew ==
    /\ ppc = "verify"
    /\ \E k \in {"run", "raise"} :
           /\ cmds' = Append(cmds, Entry("rev-parse", 1, k = "run" /\ wc.branch))
           /\ IF k = "raise" THEN PubReturn(Failed(k))
              ELSE /\ ppc' = "checkout_b"
                   /\ UNCHANGED outcome
    /\ UNCHANGED <<syncvars, pubrun, wc, created>>

\* lines 881-886: rev-parse --verify exits 0 when the branch exists
PubVerify ==
    /\ ppc = "verify"
    /\ \E k \in {"run", "raise"} :
           /\ cmds' = Append(cmds, Entry("rev-parse", 1, k = "run" /\ wc.branch))
           /\ IF k = "raise" THEN PubReturn(Failed(k))
              ELSE /\ ppc' = IF wc.branch THEN "checkout" ELSE "checkout_b"
                   /\ UNCHANGED outcome
    /\ UNCHANGED <<syncvars, pubrun, wc, created>>

\* line 887
PubCheckout ==
    /\ ppc = "checkout"
    /\ \E k \in RunKinds :
           /\ cmds' = Append(cmds, Entry("checkout", 1, k = "ok"))
           /\ IF k = "ok"
                 THEN /\ wc' = [wc EXCEPT !.head = "feature"]
                      /\ ppc' = "add"
                      /\ UNCHANGED outcome
                 ELSE PubReturn(Failed(k)) /\ UNCHANGED wc
    /\ UNCHANGED <<syncvars, pubrun, created>>

\* line 889
PubCheckoutNew ==
    /\ ppc = "checkout_b"
    /\ \E k \in RunKinds :
           /\ cmds' = Append(cmds, Entry("checkout -b", 1, k = "ok"))
           /\ created' = Append(created, [day |-> day, existed |-> wc.branch,
                                          ok |-> k = "ok"])
           /\ IF k = "ok"
                 THEN /\ wc' = [wc EXCEPT !.head = "feature", !.branch = TRUE]
                      /\ ppc' = "add"
                      /\ UNCHANGED outcome
                 ELSE PubReturn(Failed(k)) /\ UNCHANGED wc
    /\ UNCHANGED <<syncvars, pubrun>>

\* line 891
PubAdd ==
    /\ ppc = "add"
    /\ \E k \in RunKinds :
           /\ cmds' = Append(cmds, Entry("add", 2, k = "ok"))
           /\ IF k = "ok"
                 THEN /\ wc' = [wc EXCEPT !.tree = Staged(wc.tree)]
                      /\ ppc' = "recheck"
                      /\ UNCHANGED outcome
                 ELSE PubReturn(Failed(k)) /\ UNCHANGED wc
    /\ UNCHANGED <<syncvars, pubrun, created>>

\* PubRecheck going on to the commit whatever the status shows
PubRecheckGoesOn ==
    /\ ppc = "recheck"
    /\ \E k \in QueryKinds :
           LET out == StatusOut(k, wc)
           IN  /\ cmds' = Append(cmds, [Entry("status", 3, k = "ok") EXCEPT
                                            !.changes = out # <<>>, !.res = k])
               /\ IF k = "raise" THEN PubReturn(Failed(k))
                  ELSE ppc' = "commit" /\ UNCHANGED outcome
    /\ UNCHANGED <<syncvars, pubrun, wc, created>>

\* lines 892-894
PubRecheck ==
    /\ ppc = "recheck"
    /\ \E k \in QueryKinds :
           LET out == StatusOut(k, wc)
           IN  /\ cmds' = Append(cmds, [Entry("status", 3, k = "ok") EXCEPT
                                            !.changes = out # <<>>, !.res = k])
               /\ IF k = "raise" THEN PubReturn(Failed(k))
                  ELSE IF StatusEmpty(out) THEN PubReturn(NoChanges)
                  ELSE ppc' = "commit" /\ UNCHANGED outcome
    /\ UNCHANGED <<syncvars, pubrun, wc, created>>

\* lines 896-898
PubCommit ==
    /\ ppc = "commit"
    /\ \E k \in RunKinds :
           /\ cmds' = Append(cmds, Entry("commit", 4, k = "ok"))
           /\ IF k = "ok"
                 THEN /\ wc' = [wc EXCEPT !.tree = "clean", !.ahead = wc.ahead + 1]
                      /\ ppc' = "push"
                      /\ UNCHANGED outcome
                 ELSE PubReturn(Failed(k)) /\ UNCHANGED wc
    /\ UNCHANGED <<syncvars, pubrun, created>>

\* line 899
PubPush ==
    /\ ppc = "push"
    /\ \E k \in RunKinds :
           /\ cmds' = Append(cmds, Entry("push", 5, k = "ok"))
           /\ IF k = "ok"
                 THEN /\ wc' = [wc EXCEPT !.ahead = 0]
                      /\ ppc' = "request"
                      /\ UNCHANGED outcome
                 ELSE PubReturn(Failed(k)) /\ UNCHANGED wc
    /\ UNCHANGED <<syncvars, pubrun, created>>

\* the result of gh pr create: exit 0 with the URL on stdout, or non-zero
PrResult(kind) ==
    CASE kind = "created" -> [rc |-> 0, out |-> PrUrl \o <<"\n">>, err |-> <<>>]
      [] kind = "exists" -> [rc |-> 1, out |-> <<>>, err |-> ExistsText]
      [] kind = "error" -> [rc |-> 1, out |-> <<>>, err |-> ErrText]
      [] OTHER -> [rc |-> 1, out |-> <<>>, err |-> <<>>]

\* PrOutcome looking for the phrase in stderr as written, without lower()
PrOutcomeCaseSensitive(name, r) ==
    LET pr_url == IF r.rc = 0 THEN Some(Strip(r.out)) ELSE None
    IN  IF r.rc # 0 /\ ~Contains(r.err, AlreadyExists)
        THEN [name |-> name, committed |-> TRUE, pr_url |-> pr_url,
              error |-> Some(Take(Or3(r.err, r.out, PrFailedMsg), ErrMax))]
        ELSE [name |-> name, committed |-> TRUE, pr_url |-> pr_url, error |-> None]

\* lines 914-917
PrOutcome(name, r) ==
    LET pr_url == IF r.rc = 0 THEN Some(Strip(r.out)) ELSE None
    IN  IF r.rc # 0 /\ ~Contains(Lower(r.err), AlreadyExists)
        THEN [name |-> name, committed |-> TRUE, pr_url |-> pr_url,
              error |-> Some(Take(Or3(r.err, r.out, PrFailedMsg), ErrMax))]
        ELSE [name |-> name, committed |-> TRUE, pr_url |-> pr_url, error |-> None]

\* lines 902-917: the host refuses a second review request for the branch
PubRequest ==
    /\ ppc = "request"
    /\ \E k \in PrKinds :
           /\ k = "exists" => wc.pr
           /\ k = "created" => ~wc.pr
           /\ cmds' = Append(cmds, [Entry("pr", 6, k = "created") EXCEPT !.res = k])
           /\ wc' = IF k = "created" THEN [wc EXCEPT !.pr = TRUE] ELSE wc
           /\ IF k = "raise" THEN PubReturn(Failed(k))
              ELSE PubReturn(PrOutcome(Basename(repo_path), PrResult(k)))
    /\ UNCHANGED <<syncvars, pubrun, created>>

\* the truth value Python gives an optional string
Truthy(x) == x # None /\ x[1] # <<>>

\* lines 939-948: where commit_and_push_changes files the tuple t, given its
\* three lists
FileOutcome(t, c, p, e) ==
    IF Truthy(t.error)
    THEN [committed |-> c, prs |-> p, errors |-> Append(e, <<t.name, t.error[1]>>)]
    ELSE IF t.committed
    THEN [committed |-> Append(c, t.name),
          prs |-> IF Truthy(t.pr_url) THEN Append(p, <<t.name, t.pr_url[1]>>) ELSE p,
          errors |-> e]
    ELSE [committed |-> c, prs |-> p, errors |-> e]

\* lines 938-948: _commit_and_pr_one has returned to the loop of
\* commit_and_push_changes
PubRecord ==
    /\ ppc = "done"
    /\ LET l == FileOutcome(outcome, committed, prs, errors)
       IN  /\ committed' = l.committed
           /\ prs' = l.prs
           /\ errors' = l.errors
    /\ ppc' = "recorded"
    /\ UNCHANGED <<syncvars, repo_path, wc, wc0, cmds, outcome, runs, day, prev, created>>

\* the commit command of the current call succeeded
DidCommit == \E i \in DOMAIN cmds : cmds[i].cmd = "commit" /\ cmds[i].ok

\* the push command of the current call succeeded
DidPush == \E i \in DOMAIN cmds : cmds[i].cmd = "push" /\ cmds[i].ok

\* lines 1175-1179 and 934-938: a later run calls _commit_and_pr_one on the
\* working copy again, with fresh lists; files may have been edited in
\* between, and the UTC date may have changed, in which case the run's branch
\* is a new name (head "main" stands for any branch other than the run's)
PubAgain ==
    /\ ppc = "recorded"
    /\ runs < MaxPubRuns
    /\ \E edit \in BOOLEAN, d \in {day, day + 1} :
           LET w == IF edit THEN [wc EXCEPT !.tree = "dirty"] ELSE wc
           IN  /\ wc' = IF d = day THEN w
                         ELSE [w EXCEPT !.branch = FALSE, !.head = "main", !.pr = FALSE]
               /\ day' = d
               /\ prev' = [committed |-> DidCommit, pushed |-> DidPush, edited |-> edit,
                            day |-> day]
    /\ wc0' = wc'
    /\ ppc' = "status"
    /\ cmds' = <<>>
    /\ outcome' = NoOutcome
    /\ runs' = runs + 1
    /\ committed' = <<>>
    /\ prs' = <<>>
    /\ errors' = <<>>
    /\ UNCHANGED <<syncvars, repo_path, created>>

NextPub ==
    \/ PubStatus
    \/ PubVerify
    \/ PubCheckout
    \/ PubCheckoutNew
    \/ PubAdd
    \/ PubRecheck
    \/ PubCommit
    \/ PubPush
    \/ PubRequest
    \/ PubRecord
    \/ PubAgain

SpecPub == InitPub /\ [][NextPub]_vars

(***************************************************************************)
(* main: one run of --sync, --pull-only or the default clone mode, from    *)
(* the listing to the exit status                                          *)
(***************************************************************************)
\* gh repo list exits 0 with JSON, exits non-zero, or prints what json.loads
\* rejects
ListKinds == {"ok", "fail", "bad"}

\* what the account may hold: nothing, or repositories with distinct short
\* names that clone_repo leaves as they are
MainLists ==
    {<<>>} \cup {l \in RemoteLists : Range(l) \subseteq {RepoDict(RepoA), RepoDict(RepoB)}}

MainJobs == {1, 2}

\* the state in which the publisher finds a working copy: clean, modified, or
\* modified on the run's branch, which an earlier run of the day created,
\* pushed and requested review for
WcStarts ==
    {NoWc, [NoWc EXCEPT !.tree = "dirty"],
     [tree |-> "dirty", branch |-> TRUE, head |-> "feature", ahead |-> 0, pr |-> TRUE]}

\* repos is what the account holds, which main gets when the listing
\* succeeds; --pull-only does not read args.dry_run; the destination
\* directory exists (line 1133 creates it)
InitMain ==
    /\ mode \in {"sync", "pull", "clone"}
    /\ dry_run \in IF mode = "pull" THEN {FALSE} ELSE BOOLEAN
    /\ listing \in ListKinds
    /\ repos \in MainLists
    /\ url_key = "url"
    /\ jobs \in MainJobs
    /\ fs0 \in {f \in [Paths -> DirStates] :
                  \A p \in Paths :
                      p \notin {RepoPath(repos[i]) : i \in DOMAIN repos}
                          => f[p] = "absent"}
    /\ fs = fs0
    /\ gitClone \in {g \in [Range(repos) -> CloneExits] :
                        \A r \in Range(repos) :
                            (mode = "pull" \/ IsGitDir(fs0, RepoPath(r))) => g[r] = 0}
    /\ gitPull \in {g \in [Paths -> {"ok", "conflict"}] :
                        \A p \in Paths :
                            (~IsGitDir(fs0, p) \/ mode = "clone") => g[p] = "ok"}
    /\ pc = "list"
    /\ to_clone = <<>>
    /\ to_pull = <<>>
    /\ cunit = <<>>
    /\ punit = <<>>
    /\ cloned_names = <<>>
    /\ pulled_names = <<>>
    /\ pull_failed = <<>>
    /\ calls = <<>>
    /\ PubOff
    /\ names = <<>>
    /\ ok = 0
    /\ summary = None
    /\ exit_code = None
    /\ sync_run = 1
    /\ cloned_before = {}

\* what main's steps outside the publisher leave alone
mainrest == <<inputs, listing, sync_run, cloned_before, calls, repo_path, wc, wc0, cmds, outcome, runs, day, prev,
              created>>

\* ListRepos going on with the account's list when the listing failed
ListReposGoesOn ==
    /\ pc = "list"
    /\ IF mode # "pull" /\ repos = <<>>
          THEN exit_code' = Some(0) /\ pc' = "exit" /\ UNCHANGED cunit
       ELSE /\ pc' = IF mode = "clone" THEN "loop" ELSE "classify"
            /\ cunit' = IF mode = "clone" THEN [i \in DOMAIN repos |-> NoUnit] ELSE cunit
            /\ UNCHANGED exit_code
    /\ UNCHANGED <<mainrest, fs, to_clone, to_pull, punit, cloned_names, pulled_names,
                   pull_failed, ppc, committed, prs, errors, names, ok, summary>>

\* lines 1106-1117 and 1135-1157: get_repo_list; a failure ends the run with
\* status 1, an empty list ends a --sync or clone run with status 0
ListRepos ==
    /\ pc = "list"
    /\ IF listing # "ok"
          THEN exit_code' = Some(1) /\ pc' = "exit" /\ UNCHANGED cunit
       ELSE IF mode # "pull" /\ repos = <<>>
          THEN exit_code' = Some(0) /\ pc' = "exit" /\ UNCHANGED cunit
       ELSE /\ pc' = IF mode = "clone" THEN "loop" ELSE "classify"
            /\ cunit' = IF mode = "clone" THEN [i \in DOMAIN repos |-> NoUnit] ELSE cunit
            /\ UNCHANGED exit_code
    /\ UNCHANGED <<mainrest, fs, to_clone, to_pull, punit, cloned_names, pulled_names,
                   pull_failed, ppc, committed, prs, errors, names, ok, summary>>

\* lines 1204-1207: the sequential clone loop of the default mode, one iteration
MainCloneSeq ==
    /\ pc = "loop"
    /\ jobs <= 1
    /\ Queued(cunit) # {}
    /\ LET i == NextQueued(cunit)
           r == repos[i]
           c == CloneRepo(r[url_key], Dest, dry_run, fs, gitClone[r])
       IN  /\ fs' = c.fs
           /\ cunit' = [cunit EXCEPT ![i] = [NoUnit EXCEPT !.st = "collected",
                                                           !.ok = c.ok, !.how = c.how]]
           /\ ok' = IF c.ok THEN ok + 1 ELSE ok
    /\ UNCHANGED <<mainrest, pc, to_clone, to_pull, punit, cloned_names, pulled_names,
                   pull_failed, ppc, committed, prs, errors, names, summary, exit_code>>

\* lines 1209-1213: a worker takes the next submitted unit and runs clone_repo
\* up to the call of git
MainCloneStart ==
    /\ pc = "loop"
    /\ jobs > 1
    /\ Queued(cunit) # {}
    /\ Cardinality(Running(cunit)) < jobs
    /\ LET i == NextQueued(cunit)
           c == CloneCheck(repos[i][url_key], Dest, dry_run, fs)
       IN  cunit' = [cunit EXCEPT ![i] =
                        IF c = "go" THEN [NoUnit EXCEPT !.st = "running"]
                        ELSE [NoUnit EXCEPT !.st = "done", !.ok = TRUE, !.how = c]]
    /\ UNCHANGED <<mainrest, fs, pc, to_clone, to_pull, punit, cloned_names, pulled_names,
                   pull_failed, ppc, committed, prs, errors, names, ok, summary, exit_code>>

\* lines 728-738 in a worker of the default mode: git clone returns
MainCloneGit(i) ==
    /\ pc = "loop"
    /\ cunit[i].st = "running"
    /\ LET r == repos[i]
           c == CloneRun(r[url_key], Dest, fs, gitClone[r])
       IN  /\ fs' = c.fs
           /\ cunit' = [cunit EXCEPT ![i] = [NoUnit EXCEPT !.st = "done",
                                                           !.ok = c.ok, !.how = c.how]]
    /\ UNCHANGED <<mainrest, pc, to_clone, to_pull, punit, cloned_names, pulled_names,
                   pull_failed, ppc, committed, prs, errors, names, ok, summary, exit_code>>

\* lines 1214-1216: as_completed hands a finished future to main
MainCloneCollect(i) ==
    /\ pc = "loop"
    /\ cunit[i].st = "done"
    /\ cunit' = [cunit EXCEPT ![i].st = "collected"]
    /\ ok' = IF cunit[i].ok THEN ok + 1 ELSE ok
    /\ UNCHANGED <<mainrest, fs, pc, to_clone, to_pull, punit, cloned_names, pulled_names,
                   pull_failed, ppc, committed, prs, errors, names, summary, exit_code>>

\* lines 1217-1218
MainCloneReturn ==
    /\ pc = "loop"
    /\ AllCollected(cunit)
    /\ exit_code' = Some(IF ok = Len(repos) THEN 0 ELSE 1)
    /\ pc' = "exit"
    /\ UNCHANGED <<mainrest, fs, to_clone, to_pull, cunit, punit, cloned_names,
                   pulled_names, pull_failed, ppc, committed, prs, errors, names, ok,
                   summary>>

\* lines 1167-1179: sync_repos has returned; unless --dry-run was given the
\* publisher is called with the short names of the list
BeginPublish ==
    /\ pc = "done"
    /\ mode = "sync"
    /\ IF dry_run
          THEN pc' = "notify" /\ UNCHANGED names
          ELSE /\ pc' = "publish"
               /\ names' = Sorted({ShortName(repos[i]) : i \in DOMAIN repos})
    /\ UNCHANGED <<mainrest, fs, to_clone, to_pull, cunit, punit, cloned_names,
                   pulled_names, pull_failed, ppc, committed, prs, errors, ok, summary,
                   exit_code>>

\* lines 934-938: the next name of the loop; a name without a working copy is
\* skipped, for the others _commit_and_pr_one is called
PublishNext ==
    /\ pc = "publish"
    /\ ppc \in {"off", "recorded"}
    /\ names # <<>>
    /\ names' = Tail(names)
    /\ LET path == PathJoin(Dest, Head(names))
       IN  IF ~IsGitDir(fs, path)
           THEN UNCHANGED <<repo_path, wc, wc0, ppc, cmds, outcome, runs>>
           ELSE /\ repo_path' = path
                /\ wc' \in WcStarts
                /\ wc0' = wc'
                /\ ppc' = "status"
                /\ cmds' = <<>>
                /\ outcome' = NoOutcome
                /\ runs' = 1
    /\ UNCHANGED <<inputs, listing, sync_run, cloned_before, calls, day, prev, created, fs,
                   pc, to_clone, to_pull,
                   cunit, punit, cloned_names, pulled_names, pull_failed, committed, prs,
                   errors, ok, summary, exit_code>>

\* lines 949 and 1180-1183: commit_and_push_changes returns its lists
PublishReturn ==
    /\ pc = "publish"
    /\ ppc \in {"off", "recorded"}
    /\ names = <<>>
    /\ pc' = "notify"
    /\ UNCHANGED <<mainrest, fs, to_clone, to_pull, cunit, punit, cloned_names,
                   pulled_names, pull_failed, ppc, committed, prs, errors, names, ok,
                   summary, exit_code>>

\* what maybe_notify_after_run is handed (lines 840 and 863: the counts are
\* the lengths of the name lists)
Summary(type) ==
    [type |-> type, cloned |-> Len(cloned_names), pulled |-> Len(pulled_names),
     cloned_names |-> cloned_names, pulled_names |-> pulled_names, failed |-> pull_failed,
     committed_names |-> committed, prs |-> prs, commit_errors |-> errors]

\* NotifySync with the exit status taken from the publisher's errors
NotifySyncStrict ==
    /\ pc = "notify"
    /\ summary' = Some(Summary("sync"))
    /\ exit_code' = Some(IF errors = <<>> THEN 0 ELSE 1)
    /\ pc' = "exit"
    /\ UNCHANGED <<mainrest, fs, to_clone, to_pull, cunit, punit, cloned_names,
                   pulled_names, pull_failed, ppc, committed, prs, errors, names, ok>>

\* lines 1184-1197: the summary of a --sync run is handed over and main returns 0
NotifySync ==
    /\ pc = "notify"
    /\ summary' = Some(Summary("sync"))
    /\ exit_code' = Some(0)
    /\ pc' = "exit"
    /\ UNCHANGED <<mainrest, fs, to_clone, to_pull, cunit, punit, cloned_names,
                   pulled_names, pull_failed, ppc, committed, prs, errors, names, ok>>

\* lines 1121-1127: pull_all_repos has returned; the summary of a --pull-only
\* run is handed over and main returns 0
NotifyPull ==
    /\ pc = "done"
    /\ mode = "pull"
    /\ summary' = Some(Summary("pull"))
    /\ exit_code' = Some(0)
    /\ pc' = "exit"
    /\ UNCHANGED <<mainrest, fs, to_clone, to_pull, cunit, punit, cloned_names,
                   pulled_names, pull_failed, ppc, committed, prs, errors, names, ok>>

NextMain ==
    \/ ListRepos
    \/ Classify
    \/ ScanPull
    \/ CloneSeq
    \/ CloneStart
    \/ \E i \in DOMAIN cunit : CloneGit(i)
    \/ \E i \in DOMAIN cunit : CloneCollect(i)
    \/ BeginPull
    \/ PullSeq
    \/ PullStart
    \/ \E i \in DOMAIN punit : PullFinish(i)
    \/ \E i \in DOMAIN punit : PullCollect(i)
    \/ Return
    \/ MainCloneSeq
    \/ MainCloneStart
    \/ \E i \in DOMAIN cunit : MainCloneGit(i)
    \/ \E i \in DOMAIN cunit : MainCloneCollect(i)
    \/ MainCloneReturn
    \/ BeginPublish
    \/ PublishNext
    \/ PubStatus
    \/ PubVerify
    \/ PubCheckout
    \/ PubCheckoutNew
    \/ PubAdd
    \/ PubRecheck
    \/ PubCommit
    \/ PubPush
    \/ PubRequest
    \/ PubRecord
    \/ PublishReturn
    \/ NotifySync
    \/ NotifyPull

SpecMain == InitMain /\ [][NextMain]_vars

(***************************************************************************)
(* --sync run again on the same destination directory                      *)
(***************************************************************************)
MaxSyncRuns == 2

\* the first run finds the listed directories in any state; the tools answer
\* each run alike
InitAgain ==
    /\ mode = "sync"
    /\ repos \in RemoteLists
    /\ url_key \in UrlKeys
    /\ jobs \in MainJobs
    /\ fs0 \in {f \in [Paths -> DirStates] :
                  \A p \in Paths :
                      p \notin {RepoPath(repos[i]) : i \in DOMAIN repos}
                          => f[p] = "absent"}
    /\ fs = fs0
    /\ gitClone \in [Range(repos) -> CloneExits]
    /\ gitPull = [p \in Paths |-> "ok"]
    /\ pc = "classify"
    /\ to_clone = <<>>
    /\ to_pull = <<>>
    /\ cunit = <<>>
    /\ punit = <<>>
    /\ cloned_names = <<>>
    /\ pulled_names = <<>>
    /\ pull_failed = <<>>
    /\ dry_run = FALSE
    /\ calls = <<>>
    /\ PubOff
    /\ MainOff

\* the repositories of the run's clone units for which git clone exited 0
ClonedByGit == {to_clone[i] : i \in {j \in DOMAIN cunit : cunit[j].how = "cloned"}}

\* lines 1164 and 810-812: the run is over and --sync is run again, on the
\* directory as the run left it and with the same remote list; sync_repos
\* starts with empty lists
SyncAgain ==
    /\ pc = "done"
    /\ mode = "sync"
    /\ sync_run < MaxSyncRuns
    /\ sync_run' = sync_run + 1
    /\ cloned_before' = ClonedByGit
    /\ fs0' = fs
    /\ pc' = "classify"
    /\ to_clone' = <<>>
    /\ to_pull' = <<>>
    /\ cunit' = <<>>
    /\ punit' = <<>>
    /\ cloned_names' = <<>>
    /\ pulled_names' = <<>>
    /\ pull_failed' = <<>>
    /\ UNCHANGED <<mode, repos, url_key, jobs, fs, gitClone, gitPull, dry_run, calls,
                   pubvars, listing, names, ok, summary, exit_code>>

NextAgain ==
    \/ Classify
    \/ CloneSeq
    \/ CloneStart
    \/ \E i \in DOMAIN cunit : CloneGit(i)
    \/ \E i \in DOMAIN cunit : CloneCollect(i)
    \/ BeginPull
    \/ PullSeq
    \/ PullStart
    \/ \E i \in DOMAIN punit : PullFinish(i)
    \/ \E i \in DOMAIN punit : PullCollect(i)
    \/ Return
    \/ SyncAgain

SpecAgain == InitAgain /\ [][NextAgain]_vars

(***************************************************************************)
(* Claims about sync_repos                                                 *)
(***************************************************************************)
RepoNames == [i \in DOMAIN repos |-> ShortName(repos[i])]

CloneNames == [i \in DOMAIN to_clone |-> ShortName(to_clone[i])]

PullNames == [i \in DOMAIN to_pull |-> Basename(to_pull[i])]

FailedNames == [i \in DOMAIN pull_failed |-> pull_failed[i][1]]

DistinctShortNames ==
    \A i, j \in DOMAIN repos : i # j => RepoNames[i] # RepoNames[j]

SameBag(s, t) ==
    /\ Len(s) = Len(t)
    /\ \A x \in Range(s) \cup Range(t) : Count(s, x) = Count(t, x)

\* C1: for a remote list with pairwise distinct short names, after the
\* classification loop every repository is in exactly one of to_clone and
\* to_pull, the two lists hold nothing else, and a repository is in to_pull
\* exactly when dest/<short name> was a directory containing .git.
C1_Partition ==
    (mode = "sync" /\ pc # "classify" /\ DistinctShortNames) =>
        /\ \A i \in DOMAIN repos :
               /\ Count(CloneNames, RepoNames[i]) + Count(PullNames, RepoNames[i]) = 1
               /\ Count(PullNames, RepoNames[i]) = 1
                      <=> fs0[PathJoin(Dest, RepoNames[i])] = "git"
        /\ Len(to_clone) + Len(to_pull) = Len(repos)
        /\ Range(CloneNames) \cap Range(PullNames) = {}

C1_Witness ==
    /\ mode = "sync"
    /\ pc = "clone"
    /\ DistinctShortNames
    /\ Len(to_clone) = 2
    /\ Len(to_pull) = 1
    /\ \E i \in DOMAIN to_clone : fs0[RepoPath(to_clone[i])] = "dir"

\* C2: the path a clone unit writes to is dest/<short name>, the path the
\* Reconciler and the publisher inspect: once git clone has succeeded for a
\* repository, dest/<short name> is its working copy.
C2_LocalDirIsShortName ==
    \A i \in DOMAIN cunit :
        cunit[i].how = "cloned" =>
            /\ CloneTarget(to_clone[i][url_key], Dest) = RepoPath(to_clone[i])
            /\ IsGitDir(fs, RepoPath(to_clone[i]))

\* C3: of the remote repositories sharing a short name at most one is
\* classified, so each local directory gets at most one clone or pull unit.
C3_OneUnitPerDirectory ==
    (mode = "sync" /\ pc # "classify") =>
        \A n \in Range(RepoNames) : Count(CloneNames, n) + Count(PullNames, n) <= 1

\* the first line of git pull's error output (stderr, stdout when stderr is
\* empty), cut to 200 characters
ErrorLine(res) ==
    LET text == IF res.err # <<>> THEN res.err ELSE res.out
        nl == {i \in DOMAIN text : text[i] = "\n"}
        n == IF nl = {} THEN Len(text)
             ELSE (CHOOSE i \in nl : \A j \in nl : i <= j) - 1
    IN  [i \in 1..(IF n < 200 THEN n ELSE 200) |-> text[i]]

PullExit(i) == PullResult(gitPull[to_pull[i]])

C5_CloneFailureRecorded ==
    pc = "done" =>
        /\ AllCollected(cunit) /\ AllCollected(punit)
        /\ \A i \in DOMAIN cunit :
               cunit[i].how = "failed" => CloneNames[i] \in Range(FailedNames)

\* sync_repos with jobs = 1: the names the clone loop appends
RECURSIVE SeqCloned(_, _)
SeqCloned(rs, f) ==
    IF rs = <<>> THEN <<>>
    ELSE LET r == Head(rs)
             c == CloneRepo(r[url_key], Dest, FALSE, f, gitClone[r])
         IN  (IF c.ok THEN <<ShortName(r)>> ELSE <<>>) \o SeqCloned(Tail(rs), c.fs)

\* sync_repos with jobs = 1: the outcomes of the pull loop, in order
SeqPullOutcomes(ps) == [i \in DOMAIN ps |-> PullOne(ps[i], PullResult(gitPull[ps[i]]))]

SeqPulled(ps) ==
    LET o == SeqPullOutcomes(ps)
        good == SelectSeq(o, LAMBDA u : u.ok)
    IN  [i \in DOMAIN good |-> good[i].name]

SeqPullFailed(ps) ==
    LET o == SeqPullOutcomes(ps)
        ko == SelectSeq(o, LAMBDA u : ~u.ok)
    IN  [i \in DOMAIN ko |-> <<ko[i].name, ko[i].err>>]

\* the units a run creates from its inputs
ClonesOfRun == IF mode = "sync" THEN ToClone(repos, fs0) ELSE <<>>

PullsOfRun ==
    IF mode = "sync" THEN ToPull(repos, fs0) ELSE PullAllList(fs0, OnlyNames(repos))

\* C6: what sync_repos (and pull_all_repos) returns is, as multisets, what
\* the run with jobs = 1 returns for the same remote list, directory and tool
\* results, for every jobs value and every interleaving of the workers.
C6_ParallelismIndependent ==
    pc = "done" =>
        /\ SameBag(cloned_names, SeqCloned(ClonesOfRun, fs0))
        /\ SameBag(pulled_names, SeqPulled(PullsOfRun))
        /\ SameBag(pull_failed, SeqPullFailed(PullsOfRun))

\* C7: every pull unit contributes exactly one entry, to pulled_names or to
\* the failure list: at any moment the two lists hold one entry per collected
\* unit, and when sync_repos returns each to_pull path has as many entries as
\* units, all in the same list.
C7_OneOutcomePerPull ==
    /\ Len(pulled_names) + Len(pull_failed)
           = Cardinality({i \in DOMAIN punit : punit[i].st = "collected"})
    /\ pc = "done" =>
           \A i \in DOMAIN to_pull :
               /\ Count(pulled_names, PullNames[i]) + Count(FailedNames, PullNames[i])
                      = Count(to_pull, to_pull[i])
               /\ Count(pulled_names, PullNames[i]) = 0
                      \/ Count(FailedNames, PullNames[i]) = 0

C7_Witness ==
    /\ pc = "pull"
    /\ jobs = 2
    /\ Len(to_pull) = 3
    /\ punit[1].st = "running"
    /\ punit[2].st = "collected"
    /\ punit[3].st = "queued"
    /\ Len(pulled_names) + Len(pull_failed) = 1

(***************************************************************************)
(* Claims about clone_repo                                                 *)
(***************************************************************************)
\* C8: once a call of clone_repo has run git clone successfully, every later
\* call for the same target path is a skip: it returns True and does not
\* invoke git clone again.
C8_CloneIdempotent ==
    \A i, j \in DOMAIN calls :
        (i < j /\ calls[i].how = "cloned" /\ calls[j].target = calls[i].target) =>
            calls[j].how = "skip" /\ calls[j].ok

C8_Witness ==
    /\ Len(calls) = 2
    /\ calls[1].how = "cloned"
    /\ calls[2].how = "skip"
    /\ calls[2].target = calls[1].target

(***************************************************************************)
(* Claims about _commit_and_pr_one                                         *)
(***************************************************************************)
\* status, then BranchEnsure (rev-parse, checkout), StageAll, RecheckEmpty,
\* Commit, PushUpstream, RequestReview
StepOrder == <<0, 1, 1, 2, 3, 4, 5, 6>>

StepsIssued == [i \in DOMAIN cmds |-> cmds[i].step]

\* a step's command that did not succeed (rev-parse only reports whether the
\* branch exists)
StepFailed(i) == cmds[i].step \in 1..5 /\ cmds[i].cmd # "rev-parse" /\ ~cmds[i].ok

\* the call has returned to commit_and_push_changes
Returned == ppc \in {"done", "recorded"}

IsFailed(t) == t.error # None /\ ~t.committed /\ t.pr_url = None

\* C9: the publisher issues its steps in the order BranchEnsure, StageAll,
\* RecheckEmpty, Commit, PushUpstream, RequestReview, and when the command of
\* one of steps 1 to 5 fails it is the last command of the call, whose
\* outcome is Failed(message).
C9_StepOrderAndAbort ==
    /\ Len(cmds) <= Len(StepOrder)
    /\ StepsIssued = SubSeq(StepOrder, 1, Len(cmds))
    /\ \A i \in DOMAIN cmds :
           StepFailed(i) => i = Len(cmds) /\ Returned /\ IsFailed(outcome)

\* C10: when the initial status query shows no modifications the call returns
\* NoChanges having issued no other command, and the working copy's branch,
\* HEAD and history are as they were.
C10_CleanTree ==
    (cmds # <<>> /\ cmds[1].ok /\ ~cmds[1].changes) =>
        /\ Returned
        /\ outcome = NoChanges
        /\ Len(cmds) = 1
        /\ wc = wc0

C10_Witness ==
    /\ ppc = "done"
    /\ runs = 2
    /\ wc0.tree = "clean"
    /\ wc0.branch
    /\ Len(cmds) = 1
    /\ cmds[1].ok
    /\ outcome = NoChanges

\* the names in a list of commit_and_push_changes
NamesOf(l) == {l[i][1] : i \in DOMAIN l}

\* steps 1 to 5 of the current call succeeded and review-request creation,
\* answered by the hosting tool with one of kinds, has been filed
RequestFiled(kinds) ==
    /\ ppc = "recorded"
    /\ Len(cmds) = Len(StepOrder)
    /\ \A i \in 1..(Len(cmds) - 1) : cmds[i].ok \/ cmds[i].cmd = "rev-parse"
    /\ cmds[Len(cmds)].cmd = "pr"
    /\ cmds[Len(cmds)].res \in kinds

\* C11: when steps 1 to 5 succeeded and gh pr create exited non-zero with
\* "already exists" on stderr, the call returns (name, True, None, None) and
\* commit_and_push_changes lists the repository as committed, not among the
\* created review requests and not among the errors.
C11_AlreadyExistsIsSuccess ==
    RequestFiled({"exists"}) =>
        /\ outcome = [name |-> Basename(repo_path), committed |-> TRUE,
                      pr_url |-> None, error |-> None]
        /\ committed = <<Basename(repo_path)>>
        /\ Basename(repo_path) \notin NamesOf(prs)
        /\ Basename(repo_path) \notin NamesOf(errors)

C11_Witness ==
    /\ RequestFiled({"exists"})
    /\ runs = 2
    /\ prev.committed
    /\ committed # <<>>
    /\ prs = <<>>

\* C12: when steps 1 to 5 succeeded and gh pr create failed with another
\* message (or none), the results of commit_and_push_changes hold the
\* repository both in the error list and in the committed list.
C12_CommittedAndFailed ==
    RequestFiled({"error", "bare"}) =>
        /\ Basename(repo_path) \in NamesOf(errors)
        /\ Basename(repo_path) \in Range(committed)

\* the current call is a re-run on the same UTC date of a call whose commit
\* succeeded, with no edit in between
RerunAfterCommit ==
    /\ runs >= 2
    /\ prev.committed
    /\ ~prev.edited
    /\ prev.day = day

EnsureFollowsVerify ==
    \A i \in DOMAIN cmds :
        /\ cmds[i].cmd = "checkout" => cmds[i - 1].cmd = "rev-parse" /\ cmds[i - 1].ok
                                           /\ wc0.branch
        /\ cmds[i].cmd = "checkout -b" => cmds[i - 1].cmd = "rev-parse" /\ ~cmds[i - 1].ok
                                              /\ ~wc0.branch

RecheckShowsNothing ==
    \E i \in DOMAIN cmds : cmds[i].step = 3 /\ cmds[i].ok /\ ~cmds[i].changes

\* C19: when BranchEnsure and StageAll succeeded and the status recheck
\* lists no change, the recheck is the last command of the call (no commit,
\* push or review request follows), the call returns NoChanges, and
\* commit_and_push_changes files the repository neither as committed nor as
\* an error.
C19_RecheckEmpty ==
    RecheckShowsNothing =>
        /\ Returned
        /\ outcome = NoChanges
        /\ Len(cmds) = 5
        /\ \A i \in DOMAIN cmds : cmds[i].step <= 3
        /\ \A i \in 3..4 : cmds[i].ok
        /\ committed = <<>> /\ prs = <<>> /\ errors = <<>>

C19_Witness ==
    /\ RecheckShowsNothing
    /\ ppc = "recorded"
    /\ wc0.tree = "phantom"
    /\ wc.tree = "clean"
    /\ cmds[3].cmd = "checkout -b"
    /\ wc.head = "feature"

(***************************************************************************)
(* Claims about main                                                       *)
(***************************************************************************)
\* git clone was run for a unit and exited non-zero
CloneFailed == \E i \in DOMAIN cunit : cunit[i].how = "failed"

PullFailed == pull_failed # <<>>

Exited == pc = "exit" /\ exit_code # None

\* C15: in --sync, --pull-only and the default clone mode alike, a run in
\* which a clone unit or a pull unit failed ends with a non-zero exit status.
C15_ExitReflectsFailure ==
    (Exited /\ listing = "ok" /\ (CloneFailed \/ PullFailed)) => exit_code[1] # 0

\* C16: a run that obtained its list ends with a non-zero status only if a
\* clone or pull unit failed; when every clone and pull succeeded it ends
\* with 0, whatever the publisher's errors.
C16_PublishFailuresKeepExit ==
    (Exited /\ listing = "ok") =>
        /\ exit_code[1] # 0 => (CloneFailed \/ PullFailed)
        /\ (~CloneFailed /\ ~PullFailed) => exit_code = Some(0)

C16_Witness ==
    /\ Exited
    /\ mode = "sync"
    /\ listing = "ok"
    /\ ~CloneFailed
    /\ ~PullFailed
    /\ Len(pulled_names) = 2
    /\ Len(errors) = 2
    /\ exit_code = Some(0)

\* C17: when gh repo list fails, main ends with a non-zero status and the
\* run has no clone unit, no pull unit and no publisher command: nothing is
\* classified, the directory is as it was and no summary is handed over.
C17_ListingFailureFatal ==
    listing # "ok" =>
        /\ pc \in {"list", "exit"}
        /\ pc = "exit" => exit_code # None /\ exit_code[1] # 0
        /\ to_clone = <<>> /\ to_pull = <<>>
        /\ cunit = <<>> /\ punit = <<>>
        /\ ppc = "off" /\ cmds = <<>>
        /\ fs = fs0
        /\ summary = None

C17_Witness ==
    /\ listing = "bad"
    /\ mode = "sync"
    /\ ~dry_run
    /\ pc = "exit"
    /\ exit_code = Some(1)
    /\ Len(repos) = 2
    /\ IsGitDir(fs0, RepoPath(repos[1]))
    /\ ~IsDir(fs0, RepoPath(repos[2]))

\* C18: in a run with --dry-run no git clone is executed, in the default
\* clone mode and in --sync mode alike: no clone unit reaches git and the
\* directory stays as it was.
C18_DryRunNoClone ==
    dry_run =>
        /\ \A i \in DOMAIN cunit :
               cunit[i].st # "running" /\ cunit[i].how \notin {"cloned", "failed"}
        /\ fs = fs0

\* C20: in a --sync run, for every jobs value: no unit exists before the
\* classification is over, which puts every repository on one of the two
\* lists; a pull unit starts only when every clone unit is completed and
\* collected; the publisher issues a command only when every clone and pull
\* unit is completed and collected; the summary is built only when the
\* publisher has visited every name and returned.
C20_PhaseOrder ==
    (mode = "sync" /\ listing = "ok") =>
        /\ pc \in {"list", "classify"} =>
               cunit = <<>> /\ punit = <<>> /\ to_clone = <<>> /\ to_pull = <<>>
        /\ (cunit # <<>> \/ punit # <<>>) =>
               /\ Len(to_clone) + Len(to_pull) = Len(repos)
               /\ Len(cunit) = Len(to_clone)
        /\ (\E i \in DOMAIN punit : punit[i].st # "queued") => AllCollected(cunit)
        /\ (ppc # "off" \/ cmds # <<>>) =>
               /\ AllCollected(cunit)
               /\ Len(punit) = Len(to_pull)
               /\ AllCollected(punit)
               /\ summary = None \/ ppc = "recorded"
        /\ summary # None =>
               /\ AllCollected(cunit) /\ AllCollected(punit)
               /\ names = <<>>
               /\ ppc \in {"off", "recorded"}
               /\ summary[1].committed_names = committed
               /\ summary[1].commit_errors = errors

C20_Witness ==
    /\ mode = "sync"
    /\ listing = "ok"
    /\ jobs = 2
    /\ pc = "exit"
    /\ summary # None
    /\ Len(to_clone) = 1
    /\ Len(to_pull) = 1
    /\ cloned_names # <<>>
    /\ Len(committed) = 1
    /\ Len(errors) = 1

(***************************************************************************)
(* Claims about runs that follow one another                               *)
(***************************************************************************)
\* the current call is a later run, on the same date, on a working copy whose
\* previous call committed and then failed to push
RerunAfterFailedPush ==
    /\ runs >= 2
    /\ prev.committed
    /\ ~prev.pushed
    /\ prev.day = day

\* C23: after a call that committed and failed at the push, a later call on
\* the working copy in which every command succeeds does push the branch,
\* and no later call returns NoChanges while the commit is unpushed.
C23_CommitNotStranded ==
    (RerunAfterFailedPush /\ Returned) =>
        /\ (\A i \in DOMAIN cmds : cmds[i].ok \/ cmds[i].cmd = "rev-parse") => DidPush
        /\ outcome = NoChanges => wc.ahead = 0

\* the clone units of short name n for which git clone ran and exited 0
ClonedUnits(n) == {i \in DOMAIN cunit : CloneNames[i] = n /\ cunit[i].how = "cloned"}

\* C22: when sync_repos returns, every name of cloned_names stands for a
\* clone unit for which git clone was run in this run and exited 0, so the
\* cloned count is the number of such units; a unit skipped because its
\* target directory exists adds no name.
C22_ClonedMeansCloned ==
    (mode = "sync" /\ pc = "done") =>
        /\ \A n \in Range(cloned_names) :
               Count(cloned_names, n) = Cardinality(ClonedUnits(n))
        /\ Len(cloned_names)
               = Cardinality({i \in DOMAIN cunit : cunit[i].how = "cloned"})

\* C21: in the --sync run that follows a run in which git clone succeeded
\* for a repository, on the untouched directory and the same remote list,
\* the repository is classified to_pull and not to_clone, and when the run
\* returns its pull has been executed.
C21_CloneThenPull ==
    (sync_run >= 2 /\ pc # "classify") =>
        \A r \in cloned_before :
            /\ r \notin Range(to_clone)
            /\ RepoPath(r) \in Range(to_pull)
            /\ pc = "done" =>
                   \E i \in DOMAIN punit : to_pull[i] = RepoPath(r) /\ punit[i].st = "collected"

=============================================================================
